---- MODULE Spec2Model ----
(***************************************************************************)
(* IMSCC quiz parser: the upload handlers of src/server.js,                *)
(* src/api/upload.js and src/unnamed/part_000 (api/index.js), and the      *)
(* item extraction of their processXmlFile functions.                      *)
(*                                                                         *)
(* JavaScript values are records tagged by "t":                            *)
(*   undefined            [t |-> "undefined"]                              *)
(*   a string             [t |-> "string", s |-> <<token, ...>>]           *)
(*   an array             [t |-> "array",  l |-> <<value, ...>>]           *)
(*   an object            [t |-> "object", field |-> value, ...]           *)
(* A string is a sequence of tokens.  The tokens "<", ">" and " " are the  *)
(* characters the code's regular expression and trim() look at; any other  *)
(* token stands for a run of other characters.                             *)
(*                                                                         *)
(* The trees are those xml2js builds with explicitArray: false and         *)
(* mergeAttrs: true: a child that occurs once is the node itself, a child  *)
(* that occurs several times is an array of at least two nodes, an absent  *)
(* child is undefined.  Chains that the code walks only with ?. are        *)
(* folded into one field (item.itemmetadata?.qtimetadata?.qtimetadatafield *)
(* is the field qtimetadatafield, x.material?.mattext?.["#"] is mattext,   *)
(* cond.conditionvar?.varequal?.["#"] is varequal).                        *)
(***************************************************************************)
EXTENDS Naturals, Sequences, FiniteSets

VARIABLES
    variant,      \* the entry point: "server", "upload" or "index"
    req,          \* the request: method, uploaded file, archive content
    pc,           \* position of the handler
    staged,       \* the staged upload file (req.file.path) exists on disk
    tempDirPath,  \* the handler's variable tempDirPath is set
    tempDir,      \* the directory made by mkdtemp exists on disk
    manifest,     \* the parsed manifest (undefined until parsed)
    quizFiles,    \* assessment resources still to process
    allQuizData,  \* quizzes collected so far
    reads,        \* paths of the assessment files read so far
    responses,    \* responses sent, in order
    item,         \* item extraction: the item node handed to the extractor
    question,     \* item extraction: what the extractor returned
    archive,      \* unzipFile: the entries of the archive, "dir" or "file"
    entryStage,   \* unzipFile: how far each entry has got
    zipfile,      \* unzipFile: the yauzl reader
    unzipPromise  \* unzipFile: the state of the promise it returned

vars == <<variant, req, pc, staged, tempDirPath, tempDir, manifest, quizFiles,
          allQuizData, reads, responses, item, question,
          archive, entryStage, zipfile, unzipPromise>>

(***************************************************************************)
(* Bounds of the model.                                                    *)
(***************************************************************************)
MaxFields == 2
MaxChoices == 2
MaxConds == 2
MaxResources == 2
MaxEntries == 2

(***************************************************************************)
(* JavaScript values.                                                      *)
(***************************************************************************)
Undef == [t |-> "undefined"]
Str(s) == [t |-> "string", s |-> s]
Arr(l) == [t |-> "array", l |-> l]

NA == Str(<<"N/A">>)
EmptyStr == Str(<<>>)

isArray(v) == v.t = "array"

\* !v
Falsy(v) == v = Undef \/ v = EmptyStr

\* v.k on a value that is not undefined.
Prop(v, k) == IF k \in DOMAIN v THEN v[k] ELSE Undef

\* v?.k
OptProp(v, k) == IF v = Undef THEN Undef ELSE Prop(v, k)

\* a ?? b
Coalesce(a, b) == IF a = Undef THEN b ELSE a

\* Array.prototype.find: the first element of l among those at the indices
\* hits (the ones that satisfy the predicate), else undefined.
Find(l, hits) ==
    IF hits = {} THEN Undef
    ELSE l[CHOOSE i \in hits : \A j \in hits : i <= j]

\* Sequences of n distinct elements of S.
DistinctSeqs(S, n) ==
    {s \in [1..n -> S] : \A i, j \in 1..n : i /= j => s[i] /= s[j]}

\* What xml2js gives for a child element that occurs zero times, once, or
\* two to max times.
OneOrMany(S, max) ==
    {Undef} \cup S \cup {Arr(s) : s \in UNION {DistinctSeqs(S, n) : n \in 2..max}}

(***************************************************************************)
(* Strings.                                                                *)
(***************************************************************************)
RECURSIVE SkipTag(_)
\* The rest of s after the match of [^>]*>? that starts at s.
SkipTag(s) ==
    IF s = <<>> THEN <<>>
    ELSE IF Head(s) = ">" THEN Tail(s)
    ELSE SkipTag(Tail(s))

RECURSIVE RemoveTags(_)
\* s.replace(/<[^>]*>?/gm, "")
RemoveTags(s) ==
    IF s = <<>> THEN <<>>
    ELSE IF Head(s) = "<" THEN RemoveTags(SkipTag(Tail(s)))
    ELSE <<Head(s)>> \o RemoveTags(Tail(s))

RECURSIVE TrimLeft(_)
TrimLeft(s) ==
    IF s /= <<>> /\ Head(s) = " " THEN TrimLeft(Tail(s)) ELSE s

RECURSIVE TrimRight(_)
TrimRight(s) ==
    IF s /= <<>> /\ s[Len(s)] = " " THEN TrimRight(SubSeq(s, 1, Len(s) - 1))
    ELSE s

\* String.prototype.trim
Trim(s) == TrimRight(TrimLeft(s))

\* stripHtmlTags(htmlString); the argument is a string or undefined.
stripHtmlTags(v) ==
    IF Falsy(v) THEN EmptyStr ELSE Str(Trim(RemoveTags(v.s)))

(***************************************************************************)
(* Item trees.                                                             *)
(***************************************************************************)
MetaField(label, entry) ==
    [t |-> "object", fieldlabel |-> Str(<<label>>), fieldentry |-> Str(<<entry>>)]

Choice(ident, mattext) == [t |-> "object", ident |-> ident, mattext |-> mattext]

\* <setvar varname="SCORE" val="1">100</setvar>; mergeAttrs folds the
\* attributes into the node, so the node has no "$" child.
SetVar == [t |-> "object", varname |-> Str(<<"SCORE">>), val |-> Str(<<"1">>),
           hash |-> Str(<<"100">>)]

Cond(setvar, varequal) == [t |-> "object", setvar |-> setvar, varequal |-> varequal]

FieldPool ==
    { MetaField("cc_profile", "cc.multiple_choice.v0p1"),
      MetaField("cc_profile", "cc.fib.v0p1"),
      MetaField("cc_profile", "cc.essay.v0p1"),
      MetaField("cc_weighting", "5") }

ChoicePool ==
    { Choice(Str(<<"A">>), Str(<<"<", "p", ">", "Paris", "<", "/p", ">">>)),
      Choice(Str(<<"A">>), Undef),
      Choice(Undef, Str(<<"Rome">>)) }

CondPool ==
    { Cond(Undef, Str(<<"B">>)),
      Cond(SetVar, Str(<<" ", "A", " ">>)),
      Cond(SetVar, Undef) }

RenderChoices ==
    {[t |-> "object", response_label |-> l] : l \in OneOrMany(ChoicePool, MaxChoices)}

ResponseLids ==
    {Undef} \cup {[t |-> "object", render_choice |-> rc] : rc \in {Undef} \cup RenderChoices}

Presentations ==
    {Undef} \cup
    [t : {"object"},
     mattext : {Undef, Str(<<"<", "b", ">", "Capital", " ", "?">>)},
     response_lid : ResponseLids,
     response_str : {Undef, [t |-> "object"]}]

Resprocessings ==
    {Undef} \cup
    {[t |-> "object", respcondition |-> c] : c \in OneOrMany(CondPool, MaxConds)}

Items ==
    [t : {"object"},
     ident : {Str(<<"q1">>)},
     qtimetadatafield : OneOrMany(FieldPool, MaxFields),
     presentation : Presentations,
     resprocessing : Resprocessings]

(***************************************************************************)
(* Item extraction: the callback of items.map in processXmlFile.  The      *)
(* result is [ok |-> TRUE, q |-> the question], or Thrown when the         *)
(* callback raises a TypeError.                                            *)
(***************************************************************************)
Thrown == [ok |-> FALSE]
Returned(q) == [ok |-> TRUE, q |-> q]

StrEq(v, literal) == v = Str(<<literal>>)

\* Array.isArray(x) ? x : [x]
ListOrSingleton(x) == IF isArray(x) THEN x.l ELSE <<x>>

\* Array.isArray(x) ? x : [x].filter(Boolean)
ListOrSingletonFiltered(x) ==
    IF isArray(x) THEN x.l ELSE IF Falsy(x) THEN <<>> ELSE <<x>>

\* Score resolution from the list-normalized metadata fields.
resolveScore(node, qtimetadatafields) ==
    LET weightField ==
            Find(qtimetadatafields,
                 {i \in DOMAIN qtimetadatafields :
                     StrEq(OptProp(qtimetadatafields[i], "fieldlabel"), "cc_weighting")})
        resprocessing == node.resprocessing
        respconditions == OptProp(resprocessing, "respcondition")
        respcondition == IF isArray(respconditions) THEN respconditions.l[1]
                         ELSE respconditions
    IN IF ~Falsy(weightField) THEN Coalesce(weightField.fieldentry, NA)
       ELSE IF ~Falsy(resprocessing) /\ ~Falsy(respconditions)
                 /\ ~Falsy(OptProp(respcondition, "setvar"))
            THEN Coalesce(Prop(respcondition.setvar, "val"), NA)
            ELSE NA

\* choices.forEach(...): the options pushed for the choice nodes.
buildOptions(choices) ==
    [i \in 1..Len(choices) |->
        [identifier |-> Coalesce(Prop(choices[i], "ident"), NA),
         text |-> Coalesce(stripHtmlTags(Prop(choices[i], "mattext")), NA)]]

\* choice.ident on an undefined choice raises.
optionsThrow(choices) == \E i \in 1..Len(choices) : choices[i] = Undef

\* item.resprocessing?.respcondition?.find raises when respcondition is a
\* single node: it has no method find.
findCondThrows(node) ==
    LET respconditions == OptProp(node.resprocessing, "respcondition")
    IN respconditions /= Undef /\ ~isArray(respconditions)

\* The list that item.resprocessing?.respcondition?.find searches when it
\* does not raise; on undefined the chain gives undefined, as find does on
\* the empty list.
searchedConds(node) ==
    LET respconditions == OptProp(node.resprocessing, "respcondition")
    IN IF respconditions = Undef THEN <<>> ELSE respconditions.l

\* question.options.find((option) => option.identifier === correctIdent),
\* then correctChoice?.text ?? "N/A".
correctAnswerFor(options, correctIdent) ==
    LET correctChoice ==
            Find(options, {i \in DOMAIN options : options[i].identifier = correctIdent})
    IN [t |-> "object", id |-> correctIdent,
        text |-> Coalesce(OptProp(correctChoice, "text"), NA)]

\* item.resprocessing?.respcondition?.[0]?.conditionvar?.varequal?.["#"] ?? "N/A"
fibAnswer(node) ==
    LET respconditions == OptProp(node.resprocessing, "respcondition")
        first == IF isArray(respconditions) THEN respconditions.l[1] ELSE Undef
    IN Coalesce(OptProp(first, "varequal"), NA)

\* The essay test on the value profileField.
isEssay(profileField) ==
    LET essay(f) == /\ StrEq(OptProp(f, "fieldlabel"), "cc_profile")
                    /\ StrEq(OptProp(f, "fieldentry"), "cc.essay.v0p1")
    IN IF isArray(profileField)
       THEN ~Falsy(Find(profileField.l,
                        {i \in DOMAIN profileField.l : essay(profileField.l[i])}))
       ELSE essay(profileField)

renderChoiceOf(node) ==
    OptProp(OptProp(OptProp(node, "presentation"), "response_lid"), "render_choice")

\* src/server.js: structure first, the essay profile last.
processItemServer(node) ==
    IF node = Undef THEN Thrown
    ELSE
    LET raw == node.qtimetadatafield
        base == [itemIdentifier |-> Coalesce(Prop(node, "ident"), NA),
                 questionText |->
                     Coalesce(stripHtmlTags(OptProp(node.presentation, "mattext")), NA),
                 responseType |-> "N/A",
                 options |-> <<>>,
                 correctAnswer |-> NA,
                 score |-> resolveScore(node, ListOrSingleton(raw))]
        render_choice == renderChoiceOf(node)
        choices == ListOrSingleton(render_choice.response_label)
        options == buildOptions(choices)
        conds == searchedConds(node)
        correctResponse ==
            Find(conds, {i \in DOMAIN conds : ~Falsy(conds[i].setvar)})
        correctIdent == Str(Trim(Coalesce(correctResponse.varequal, EmptyStr).s))
    IN IF ~Falsy(render_choice)
       THEN IF optionsThrow(choices) \/ findCondThrows(node) THEN Thrown
            ELSE Returned([base EXCEPT
                     !.responseType = "Multiple Choice",
                     !.options = options,
                     !.correctAnswer =
                         IF ~Falsy(correctResponse)
                         THEN correctAnswerFor(options, correctIdent)
                         ELSE [t |-> "object", id |-> NA, text |-> NA]])
       ELSE IF ~Falsy(OptProp(node.presentation, "response_str"))
       THEN Returned([base EXCEPT !.responseType = "Fill-in-the-Blank",
                                  !.correctAnswer = fibAnswer(node)])
       ELSE IF isEssay(raw)
       THEN Returned([base EXCEPT !.responseType = "Essay",
                                  !.correctAnswer = Str(<<"Manual scoring required.">>),
                                  !.score = Str(<<"Manual grading">>)])
       ELSE Returned([base EXCEPT !.responseType = "Unknown"])

\* src/api/upload.js: multiple choice only, no score resolution.
processItemUpload(node) ==
    IF node = Undef THEN Thrown
    ELSE
    LET base == [itemIdentifier |-> Coalesce(Prop(node, "ident"), NA),
                 questionText |->
                     Coalesce(stripHtmlTags(OptProp(node.presentation, "mattext")), NA),
                 responseType |-> "N/A",
                 options |-> <<>>,
                 correctAnswer |-> NA,
                 score |-> NA]
        render_choice == renderChoiceOf(node)
        choices == ListOrSingleton(render_choice.response_label)
        options == buildOptions(choices)
        conds == searchedConds(node)
        correctResponse ==
            Find(conds,
                 {i \in DOMAIN conds :
                     /\ ~Falsy(conds[i].setvar)
                     /\ StrEq(OptProp(Prop(conds[i].setvar, "$"), "varname"), "SCORE")})
        correctIdent == Coalesce(correctResponse.varequal, EmptyStr)
    IN IF ~Falsy(render_choice)
       THEN IF optionsThrow(choices) \/ findCondThrows(node) THEN Thrown
            ELSE IF ~Falsy(correctResponse)
            THEN Returned([base EXCEPT
                     !.responseType = "Multiple Choice",
                     !.options = options,
                     !.correctAnswer = correctAnswerFor(options, correctIdent),
                     !.score = Coalesce(OptProp(correctResponse.setvar, "hash"), NA)])
            ELSE Returned([base EXCEPT !.responseType = "Multiple Choice",
                                       !.options = options])
       ELSE Returned(base)

\* src/unnamed/part_000 (api/index.js): the cc_profile field decides.
processItemIndex(node) ==
    IF node = Undef THEN Thrown
    ELSE
    LET raw == node.qtimetadatafield
        qtimetadatafields == ListOrSingletonFiltered(raw)
        base == [itemIdentifier |-> Coalesce(Prop(node, "ident"), NA),
                 questionText |->
                     Coalesce(stripHtmlTags(OptProp(node.presentation, "mattext")), NA),
                 responseType |-> "N/A",
                 options |-> <<>>,
                 correctAnswer |-> [t |-> "object", id |-> NA, text |-> NA],
                 score |-> resolveScore(node, qtimetadatafields)]
        profileField ==
            Find(qtimetadatafields,
                 {i \in DOMAIN qtimetadatafields :
                     StrEq(Prop(qtimetadatafields[i], "fieldlabel"), "cc_profile")})
        questionProfileType ==
            IF ~Falsy(profileField) THEN profileField.fieldentry ELSE Str(<<"unknown">>)
        render_choice == renderChoiceOf(node)
        labels == OptProp(render_choice, "response_label")
        \* item.presentation.response_lid.render_choice.response_label, walked
        \* without ?. when the guarded walk did not give an array
        labelsThrow == ~isArray(labels) /\ render_choice = Undef
        choices == ListOrSingleton(labels)
        options == buildOptions(choices)
        conds == searchedConds(node)
        correctResponse ==
            Find(conds, {i \in DOMAIN conds : ~Falsy(conds[i].setvar)})
        correctIdent == Str(Trim(Coalesce(correctResponse.varequal, EmptyStr).s))
    IN IF StrEq(questionProfileType, "cc.multiple_choice.v0p1")
       THEN IF labelsThrow \/ optionsThrow(choices) \/ findCondThrows(node) THEN Thrown
            ELSE Returned([base EXCEPT
                     !.responseType = "Multiple Choice",
                     !.options = options,
                     !.correctAnswer =
                         IF ~Falsy(correctResponse)
                         THEN correctAnswerFor(options, correctIdent)
                         ELSE [t |-> "object", id |-> NA, text |-> NA]])
       ELSE IF StrEq(questionProfileType, "cc.fib.v0p1")
       THEN Returned([base EXCEPT !.responseType = "Fill-in-the-Blank",
                                  !.correctAnswer = fibAnswer(node)])
       ELSE IF isEssay(profileField)
       THEN Returned([base EXCEPT !.responseType = "Essay",
                                  !.correctAnswer = Str(<<"Manual scoring required.">>),
                                  !.score = Str(<<"Manual grading">>)])
       ELSE Returned([base EXCEPT !.responseType = "Unknown"])

processItem(v, node) ==
    CASE v = "server" -> processItemServer(node)
      [] v = "upload" -> processItemUpload(node)
      [] v = "index" -> processItemIndex(node)

(***************************************************************************)
(* Item extraction as a state machine: an item node is drawn, then one of  *)
(* the three entry points' extractors is applied to it.  The undefined     *)
(* node is the element of the list [section.item] that processXmlFile      *)
(* builds for a section without item.                                      *)
(***************************************************************************)
NoRequest == [method |-> "none"]

\* The variables of the entry-by-entry account of unzipFile, and their value
\* where unzipFile is taken as one step.
unzipVars == <<archive, entryStage, zipfile, unzipPromise>>

unzipIdle ==
    /\ archive = <<>>
    /\ entryStage = <<>>
    /\ zipfile = [next |-> 1, requested |-> 0]
    /\ unzipPromise = "none"

handlerIdle ==
    /\ req = NoRequest
    /\ staged = FALSE
    /\ tempDirPath = FALSE
    /\ tempDir = FALSE
    /\ manifest = Undef
    /\ quizFiles = <<>>
    /\ allQuizData = <<>>
    /\ reads = <<>>
    /\ responses = <<>>
    /\ unzipIdle

handlerVars == <<req, staged, tempDirPath, tempDir, manifest, quizFiles,
                 allQuizData, reads, responses, unzipVars>>

ItemInit ==
    /\ item \in Items \cup {Undef}
    /\ question = Undef
    /\ variant = "none"
    /\ pc = "item"
    /\ handlerIdle

Extract(v) ==
    /\ pc = "item"
    /\ variant' = v
    /\ question' = processItem(v, item)
    /\ pc' = "extracted"
    /\ UNCHANGED <<item, handlerVars>>

ExtractServer == Extract("server")
ExtractUpload == Extract("upload")
ExtractIndex == Extract("index")

ItemNext == ExtractServer \/ ExtractUpload \/ ExtractIndex

SpecItem == ItemInit /\ [][ItemNext]_vars

(***************************************************************************)
(* Assessment documents and processXmlFile.                                *)
(***************************************************************************)
AssessmentType == Str(<<"imsqti_xmlv1p2/imscc_xmlv1p3/assessment">>)

Rejected == [kind |-> "rejected"]
Null == [kind |-> "null"]
Quiz(title, items) == [kind |-> "quiz", title |-> title, items |-> items]

McItem ==
    [t |-> "object", ident |-> Str(<<"q1">>),
     qtimetadatafield |->
         Arr(<<MetaField("cc_profile", "cc.multiple_choice.v0p1"),
               MetaField("cc_weighting", "5")>>),
     presentation |->
         [t |-> "object", mattext |-> Str(<<"<", "b", ">", "Capital", " ", "?">>),
          response_lid |->
              [t |-> "object",
               render_choice |->
                   [t |-> "object",
                    response_label |->
                        Arr(<<Choice(Undef, Str(<<"Rome">>)),
                              Choice(Str(<<"A">>),
                                     Str(<<"<", "p", ">", "Paris", "<", "/p", ">">>))>>)]],
          response_str |-> Undef],
     resprocessing |->
         [t |-> "object",
          respcondition |-> Arr(<<Cond(Undef, Str(<<"B">>)),
                                  Cond(SetVar, Str(<<" ", "A", " ">>))>>)]]

EssayItem ==
    [t |-> "object", ident |-> Str(<<"q1">>),
     qtimetadatafield |-> MetaField("cc_profile", "cc.essay.v0p1"),
     presentation |-> Undef,
     resprocessing |-> Undef]

Document(container) == [t |-> "object", questestinterop |-> container]

Assessment(title, section) ==
    [t |-> "object",
     assessment |-> [t |-> "object", title |-> title, section |-> section],
     item |-> Undef]

Section(items) == [t |-> "object", item |-> items]

\* The files of the unpacked archive, by the segments of the path relative
\* to its root:
\* whether the file exists, how its XML parses ("ok", "malformed": the strict
\* parser reports an error and the lenient one recovers the tree,
\* "unparsable": both report an error), and the parsed tree.
Hrefs == {<<"quiz1.xml">>, <<"quiz2.xml">>, <<"gone.xml">>, <<"broken.xml">>,
          <<"sloppy.xml">>, <<"other.xml">>, <<"noitem.xml">>,
          <<"..", "/", "imscc-0", "/", "quiz.xml">>}

PackageFile(href) ==
    CASE href = <<"quiz1.xml">> ->
            [exists |-> TRUE, parse |-> "ok",
             tree |-> Document(Assessment(Str(<<"Quiz", " ", "1">>),
                                          Section(Arr(<<McItem, EssayItem>>))))]
      [] href = <<"quiz2.xml">> ->
            [exists |-> TRUE, parse |-> "ok",
             tree |-> Document([t |-> "object", assessment |-> Undef,
                                item |-> EssayItem])]
      [] href = <<"gone.xml">> ->
            [exists |-> FALSE, parse |-> "ok", tree |-> Undef]
      [] href = <<"broken.xml">> ->
            [exists |-> TRUE, parse |-> "unparsable", tree |-> Undef]
      [] href = <<"sloppy.xml">> ->
            [exists |-> TRUE, parse |-> "malformed",
             tree |-> Document(Assessment(Undef, Undef))]
      [] href = <<"other.xml">> ->
            [exists |-> TRUE, parse |-> "ok", tree |-> Document(Undef)]
      [] href = <<"noitem.xml">> ->
            [exists |-> TRUE, parse |-> "ok",
             tree |-> Document(Assessment(Str(<<"Empty">>), Section(Undef)))]
      [] OTHER -> [exists |-> FALSE, parse |-> "ok", tree |-> Undef]

\* The directory mkdtemp made for the request, as path segments:
\* path.join(os.tmpdir(), "imscc-") plus the random suffix.
TempRoot == <<"tmp", "imscc-1">>

\* path.join(base, rel): the segments of both, normalized.  base is a list of
\* segments, rel the tokens of a string, "/" being the separator.
pathJoin(base, rel) ==
    LET all == base \o rel
        N[i \in 0..Len(all)] ==
            IF i = 0 THEN <<>>
            ELSE IF all[i] \in {"/", "."} THEN N[i - 1]
            ELSE IF all[i] = ".."
            THEN IF N[i - 1] = <<>> THEN <<>>
                 ELSE SubSeq(N[i - 1], 1, Len(N[i - 1]) - 1)
            ELSE Append(N[i - 1], all[i])
    IN N[Len(all)]

underRoot(path) ==
    Len(path) > Len(TempRoot) /\ SubSeq(path, 1, Len(TempRoot)) = TempRoot

\* The files of the host outside the request's directory: another request's
\* unpacked quiz is there.
HostFile(path) ==
    IF path = <<"tmp", "imscc-0", "quiz.xml">>
    THEN [exists |-> TRUE, parse |-> "ok",
          tree |-> Document([t |-> "object", assessment |-> Undef,
                             item |-> EssayItem])]
    ELSE [exists |-> FALSE, parse |-> "ok", tree |-> Undef]

\* What fsPromises.readFile(xmlFilePath) finds.
FileAt(xmlFilePath) ==
    IF underRoot(xmlFilePath)
    THEN PackageFile(SubSeq(xmlFilePath, Len(TempRoot) + 1, Len(xmlFilePath)))
    ELSE HostFile(xmlFilePath)

\* new xml2js.Parser({...}): only api/index.js passes strict: false.
Strict(v) == v /= "index"

\* parser.parseString calls back with err.
parseFails(v, parse) ==
    parse = "unparsable" \/ (parse = "malformed" /\ Strict(v))

titleNotFound(v) ==
    IF v = "upload" THEN Str(<<"N/A">>) ELSE Str(<<"N/A (Title not found)">>)

singleItemTitle(v) ==
    IF v = "upload" THEN Str(<<"Single Item Quiz">>)
    ELSE Str(<<"Single Item Quiz (No Assessment Tag)">>)

\* The body of the parseString callback on a parsed tree.
extractQuiz(v, result) ==
    LET mainContainer == result.questestinterop
        assessment == mainContainer.assessment
        section == assessment.section
        items ==
            IF ~Falsy(assessment)
            THEN IF ~Falsy(section) THEN ListOrSingleton(section.item) ELSE <<>>
            ELSE ListOrSingleton(mainContainer.item)
        quizTitle ==
            IF ~Falsy(assessment) THEN Coalesce(assessment.title, titleNotFound(v))
            ELSE singleItemTitle(v)
        processed == [i \in 1..Len(items) |-> processItem(v, items[i])]
    IN IF Falsy(mainContainer) THEN Null
       ELSE IF Falsy(assessment) /\ Falsy(mainContainer.item) THEN Null
       ELSE IF \E i \in 1..Len(items) : ~processed[i].ok THEN Rejected
       ELSE Quiz(quizTitle, [i \in 1..Len(items) |-> processed[i].q])

\* processXmlFile(xmlFilePath): how the returned promise settles.
processXmlFile(v, xmlFilePath) ==
    LET file == FileAt(xmlFilePath)
    IN IF ~file.exists THEN Rejected
       ELSE IF parseFails(v, file.parse) THEN Rejected
       ELSE extractQuiz(v, file.tree)

(***************************************************************************)
(* Manifests and requests.                                                 *)
(***************************************************************************)
File(href) == [t |-> "object", href |-> href]

Resource(type, file) == [t |-> "object", type |-> type, file |-> file]

FilePool ==
    {Undef, File(Undef)}
    \cup {File(Str(h)) : h \in Hrefs}
    \cup {Arr(<<File(Str(<<"quiz2.xml">>)), File(Str(<<"style.css">>))>>)}

ResourcePool ==
    {Resource(AssessmentType, f) : f \in FilePool}
    \cup {Resource(Str(<<"webcontent">>), File(Str(<<"quiz1.xml">>)))}

\* The parsed manifest; subject is
\* metadata?.["lomm:lom"]?.["lomm:general"]?.["lomm:title"]?.["lomm:string"]?.["#"].
Manifests ==
    {[t |-> "object", manifest |-> m] :
        m \in {Undef} \cup
              [t : {"object"},
               subject : {Undef, Str(<<"Geography">>)},
               resources : {Undef} \cup
                   {[t |-> "object", resource |-> r] :
                        r \in OneOrMany(ResourcePool, MaxResources)}]}

\* A request: what multer delivered ("file", "nofile", or "error" when the
\* middleware fails), whether the archive opens, and the manifest file of
\* the archive.
Request(method, upload, zip, manifestFile, tree) ==
    [method |-> method, upload |-> upload, zip |-> zip,
     manifestFile |-> manifestFile, tree |-> tree]

Requests ==
    {Request("POST", "nofile", "none", "none", Undef),
     Request("POST", "file", "corrupt", "none", Undef),
     Request("POST", "file", "ok", "absent", Undef),
     Request("POST", "file", "ok", "unparsable", Undef)}
    \cup {Request("POST", "file", "ok", parse, m) :
              parse \in {"ok", "malformed"}, m \in Manifests}

\* Only the serverless handler of api/upload.js sees other methods and the
\* failure of the upload middleware.
UploadOnlyRequests ==
    {Request("GET", "nofile", "none", "none", Undef),
     Request("POST", "error", "none", "none", Undef)}

(***************************************************************************)
(* The upload handlers.                                                    *)
(***************************************************************************)
isAssessment(r) == OptProp(r, "type") = AssessmentType

\* Array.prototype.filter: the elements of l at the indices keep, in order.
FilterSeq(l, keep) ==
    LET F[i \in 0..Len(l)] ==
            IF i = 0 THEN <<>>
            ELSE IF i \in keep THEN Append(F[i - 1], l[i]) ELSE F[i - 1]
    IN F[Len(l)]

\* l.filter((r) => r?.type === "imsqti_xmlv1p2/imscc_xmlv1p3/assessment")
assessmentsOf(l) == FilterSeq(l, {i \in DOMAIN l : isAssessment(l[i])})

\* manifest.manifest.resources.resource raises when manifest.manifest or its
\* resources is undefined.
resourcesThrow(tree) ==
    tree.manifest = Undef \/ tree.manifest.resources = Undef

\* The statements from "const resources" to "const quizFiles": the list of
\* assessment resources, or Thrown.
resolveQuizFiles(v, tree) ==
    LET resources == tree.manifest.resources.resource
    IN IF resourcesThrow(tree) THEN Thrown
       ELSE CASE v = "server" ->
                    \* resources.filter(...) on the value as it is
                    IF isArray(resources)
                    THEN [ok |-> TRUE, l |-> assessmentsOf(resources.l)]
                    ELSE Thrown
              [] v = "upload" ->
                    [ok |-> TRUE,
                     l |-> assessmentsOf(ListOrSingleton(resources))]
              [] v = "index" ->
                    [ok |-> TRUE,
                     l |-> assessmentsOf(ListOrSingletonFiltered(resources))]

\* The path the loop body reads for a resource: [ok |-> FALSE] when the body
\* raises before reading, otherwise the href, or undefined when the body
\* skips the resource.
relativePathOf(v, resource) ==
    IF v = "index"
    THEN LET files == ListOrSingletonFiltered(resource.file)
             relativePath == IF files = <<>> THEN Undef ELSE Prop(files[1], "href")
         IN [ok |-> TRUE, path |-> IF Falsy(relativePath) THEN Undef ELSE relativePath]
    ELSE \* resource.file.href, then path.join(tempDirPath, relativePath)
         IF resource.file = Undef \/ Prop(resource.file, "href") = Undef
         THEN Thrown
         ELSE [ok |-> TRUE, path |-> resource.file.href]

subjectName(tree) == Coalesce(OptProp(tree.manifest, "subject"), NA)

\* Only the Express handlers have a finally block.
afterResponse(v) == IF v = "upload" THEN "done" ELSE "unlink"

HandlerInit ==
    /\ variant \in {"server", "upload", "index"}
    /\ req \in Requests \cup (IF variant = "upload" THEN UploadOnlyRequests ELSE {})
    /\ pc = "start"
    /\ staged = (req.upload = "file")
    /\ tempDirPath = FALSE
    /\ tempDir = FALSE
    /\ manifest = Undef
    /\ quizFiles = <<>>
    /\ allQuizData = <<>>
    /\ reads = <<>>
    /\ responses = <<>>
    /\ item = Undef
    /\ question = Undef
    /\ unzipIdle

itemVars == <<item, question>>

\* api/upload.js: if (req.method !== "POST") return res.status(405)
RejectMethod ==
    /\ pc = "start" /\ variant = "upload" /\ req.method /= "POST"
    /\ responses' = Append(responses, [status |-> 405])
    /\ pc' = "done"
    /\ UNCHANGED <<variant, req, staged, tempDirPath, tempDir, manifest, quizFiles,
                   allQuizData, reads, itemVars, unzipVars>>

\* api/upload.js: await runMiddleware(...) rejects
MiddlewareFails ==
    /\ pc = "start" /\ variant = "upload" /\ req.method = "POST"
    /\ req.upload = "error"
    /\ pc' = "catch"
    /\ UNCHANGED <<variant, req, staged, tempDirPath, tempDir, manifest, quizFiles,
                   allQuizData, reads, responses, itemVars, unzipVars>>

\* if (!req.file) return res.status(400)
NoFile ==
    /\ pc = "start" /\ req.method = "POST" /\ req.upload = "nofile"
    /\ responses' = Append(responses, [status |-> 400])
    /\ pc' = "done"
    /\ UNCHANGED <<variant, req, staged, tempDirPath, tempDir, manifest, quizFiles,
                   allQuizData, reads, itemVars, unzipVars>>

Accept ==
    /\ pc = "start" /\ req.method = "POST" /\ req.upload = "file"
    /\ pc' = "mkdtemp"
    /\ UNCHANGED <<variant, req, staged, tempDirPath, tempDir, manifest, quizFiles,
                   allQuizData, reads, responses, itemVars, unzipVars>>

\* tempDirPath = await fsPromises.mkdtemp(...)
Mkdtemp ==
    /\ pc = "mkdtemp"
    /\ \E made \in BOOLEAN :
          /\ tempDir' = made
          /\ tempDirPath' = made
          /\ pc' = IF made THEN "unzip" ELSE "catch"
    /\ UNCHANGED <<variant, req, staged, manifest, quizFiles, allQuizData, reads,
                   responses, itemVars, unzipVars>>

\* await unzipFile(imsccFilePath, tempDirPath), as one step: the promise is
\* rejected when yauzl cannot open the archive and resolved otherwise.
\* SpecUnzip below has unzipFile entry by entry, with its I/O errors.
Unzip ==
    /\ pc = "unzip"
    /\ pc' = IF req.zip = "ok" THEN "readManifest" ELSE "catch"
    /\ UNCHANGED <<variant, req, staged, tempDirPath, tempDir, manifest, quizFiles,
                   allQuizData, reads, responses, itemVars, unzipVars>>

\* await fsPromises.readFile(manifestFilePath, "utf-8")
ReadManifest ==
    /\ pc = "readManifest"
    /\ pc' = IF req.manifestFile = "absent" THEN "catch" ELSE "parseManifest"
    /\ UNCHANGED <<variant, req, staged, tempDirPath, tempDir, manifest, quizFiles,
                   allQuizData, reads, responses, itemVars, unzipVars>>

\* ParseManifest with the parse error swallowed: the handler goes on with an
\* empty manifest instead of rejecting.
ParseManifestSwallowsError ==
    /\ pc = "parseManifest"
    /\ pc' = "resolve"
    /\ manifest' =
          IF parseFails(variant, req.manifestFile)
          THEN [t |-> "object",
                manifest |-> [t |-> "object", subject |-> Undef,
                              resources |-> [t |-> "object", resource |-> Undef]]]
          ELSE req.tree
    /\ UNCHANGED <<variant, req, staged, tempDirPath, tempDir, quizFiles,
                   allQuizData, reads, responses, itemVars, unzipVars>>

\* const manifest = await new Promise(... parser.parseString ...)
ParseManifest ==
    /\ pc = "parseManifest"
    /\ IF parseFails(variant, req.manifestFile)
       THEN pc' = "catch" /\ UNCHANGED manifest
       ELSE pc' = "resolve" /\ manifest' = req.tree
    /\ UNCHANGED <<variant, req, staged, tempDirPath, tempDir, quizFiles,
                   allQuizData, reads, responses, itemVars, unzipVars>>

\* subjectName, resources, quizFiles
Resolve ==
    /\ pc = "resolve"
    /\ LET found == resolveQuizFiles(variant, manifest)
       IN IF found.ok
          THEN pc' = "loop" /\ quizFiles' = found.l
          ELSE pc' = "catch" /\ UNCHANGED quizFiles
    /\ UNCHANGED <<variant, req, staged, tempDirPath, tempDir, manifest,
                   allQuizData, reads, responses, itemVars, unzipVars>>

\* ProcessResource with the quiz put at the front of allQuizData (unshift
\* where the handler has push).
ProcessResourceUnshift ==
    /\ pc = "loop" /\ quizFiles /= <<>>
    /\ LET resource == Head(quizFiles)
           target == relativePathOf(variant, resource)
           xmlFilePath == pathJoin(TempRoot, target.path.s)
           quizData == processXmlFile(variant, xmlFilePath)
       IN IF ~target.ok
          THEN pc' = "catch" /\ UNCHANGED <<allQuizData, reads>>
          ELSE IF target.path = Undef
          THEN pc' = "loop" /\ UNCHANGED <<allQuizData, reads>>
          ELSE /\ reads' = Append(reads, xmlFilePath)
               /\ pc' = IF quizData = Rejected THEN "catch" ELSE "loop"
               /\ allQuizData' = IF quizData.kind = "quiz"
                                 THEN <<quizData>> \o allQuizData
                                 ELSE allQuizData
    /\ quizFiles' = Tail(quizFiles)
    /\ UNCHANGED <<variant, req, staged, tempDirPath, tempDir, manifest,
                   responses, itemVars, unzipVars>>

\* One turn of for (const resource of quizFiles).
ProcessResource ==
    /\ pc = "loop" /\ quizFiles /= <<>>
    /\ LET resource == Head(quizFiles)
           target == relativePathOf(variant, resource)
           xmlFilePath == pathJoin(TempRoot, target.path.s)
           quizData == processXmlFile(variant, xmlFilePath)
       IN IF ~target.ok
          THEN pc' = "catch" /\ UNCHANGED <<allQuizData, reads>>
          ELSE IF target.path = Undef
          THEN pc' = "loop" /\ UNCHANGED <<allQuizData, reads>>
          ELSE /\ reads' = Append(reads, xmlFilePath)
               /\ pc' = IF quizData = Rejected THEN "catch" ELSE "loop"
               /\ allQuizData' = IF quizData.kind = "quiz"
                                 THEN Append(allQuizData, quizData)
                                 ELSE allQuizData
    /\ quizFiles' = Tail(quizFiles)
    /\ UNCHANGED <<variant, req, staged, tempDirPath, tempDir, manifest,
                   responses, itemVars, unzipVars>>

\* res.json({ subject: subjectName, quizzes: allQuizData })
Respond ==
    /\ pc = "loop" /\ quizFiles = <<>>
    /\ responses' = Append(responses,
                           [status |-> 200, subject |-> subjectName(manifest),
                            quizzes |-> allQuizData])
    /\ pc' = afterResponse(variant)
    /\ UNCHANGED <<variant, req, staged, tempDirPath, tempDir, manifest, quizFiles,
                   allQuizData, reads, itemVars, unzipVars>>

\* catch (error) { res.status(500)... }
Catch ==
    /\ pc = "catch"
    /\ responses' = Append(responses, [status |-> 500])
    /\ pc' = afterResponse(variant)
    /\ UNCHANGED <<variant, req, staged, tempDirPath, tempDir, manifest, quizFiles,
                   allQuizData, reads, itemVars, unzipVars>>

\* finally: if (req.file) await fsPromises.unlink(imsccFilePath)
Unlink ==
    /\ pc = "unlink"
    /\ staged' = IF req.upload = "file" THEN FALSE ELSE staged
    /\ pc' = "rm"
    /\ UNCHANGED <<variant, req, tempDirPath, tempDir, manifest, quizFiles,
                   allQuizData, reads, responses, itemVars, unzipVars>>

\* finally: if (tempDirPath) await fsPromises.rm(tempDirPath, {recursive, force})
RmTempDir ==
    /\ pc = "rm"
    /\ tempDir' = IF tempDirPath THEN FALSE ELSE tempDir
    /\ pc' = "done"
    /\ UNCHANGED <<variant, req, staged, tempDirPath, manifest, quizFiles,
                   allQuizData, reads, responses, itemVars, unzipVars>>

Next ==
    \/ RejectMethod
    \/ MiddlewareFails
    \/ NoFile
    \/ Accept
    \/ Mkdtemp
    \/ Unzip
    \/ ReadManifest
    \/ ParseManifest
    \/ Resolve
    \/ ProcessResource
    \/ Respond
    \/ Catch
    \/ Unlink
    \/ RmTempDir

Spec == HandlerInit /\ [][Next]_vars

(***************************************************************************)
(* unzipFile entry by entry.  The archive is a list of entries, each a     *)
(* directory or a file; entryStage[i] is "queued" until the reader emits   *)
(* the entry, then "mkdir", for a file "open" (openReadStream called) and  *)
(* "piping", and at last "written", or "failed" when a step reported an    *)
(* error.  zipfile.requested counts the calls of readEntry that the reader *)
(* has not answered yet, zipfile.next is the entry it emits next.          *)
(***************************************************************************)
Archives ==
    UNION {[1..n -> {"dir", "file"}] : n \in 0..MaxEntries}

\* The requests of an accepted upload: an archive that yauzl cannot open,
\* one without manifest, one with a manifest of two assessment resources.
UnzipRequests ==
    {Request("POST", "file", "corrupt", "none", Undef),
     Request("POST", "file", "ok", "absent", Undef),
     Request("POST", "file", "ok", "ok",
             [t |-> "object",
              manifest |->
                  [t |-> "object", subject |-> Str(<<"Geography">>),
                   resources |->
                       [t |-> "object",
                        resource |->
                            Arr(<<Resource(AssessmentType, File(Str(<<"other.xml">>))),
                                  Resource(AssessmentType,
                                           File(Str(<<"quiz2.xml">>)))>>)]]])}

UnzipInit ==
    /\ variant \in {"server", "upload", "index"}
    /\ req \in UnzipRequests
    /\ archive \in Archives
    /\ entryStage = [i \in 1..Len(archive) |-> "queued"]
    /\ zipfile = [next |-> 1, requested |-> 0]
    /\ unzipPromise = "none"
    /\ pc = "start"
    /\ staged = TRUE
    /\ tempDirPath = FALSE
    /\ tempDir = FALSE
    /\ manifest = Undef
    /\ quizFiles = <<>>
    /\ allQuizData = <<>>
    /\ reads = <<>>
    /\ responses = <<>>
    /\ item = Undef
    /\ question = Undef

handlerState == <<variant, req, staged, tempDirPath, tempDir, manifest, quizFiles,
                  allQuizData, reads, responses, itemVars>>

\* resolve() and reject(err): a settled promise stays as it is.
settle(outcome) == IF unzipPromise = "pending" THEN outcome ELSE unzipPromise

\* The I/O of unzipFile goes on while the process lives.
unzipping == unzipPromise /= "none" /\ pc /= "crashed"

\* new Promise(...), yauzl.open(..., (err, zipfile) => { if (err) return
\* reject(err); zipfile.readEntry(); ... })
YauzlOpen ==
    /\ pc = "unzip" /\ unzipPromise = "none"
    /\ IF req.zip = "ok"
       THEN /\ unzipPromise' = "pending"
            /\ zipfile' = [zipfile EXCEPT !.requested = 1]
       ELSE /\ unzipPromise' = "rejected"
            /\ UNCHANGED zipfile
    /\ UNCHANGED <<pc, archive, entryStage, handlerState>>

\* zipfile.on("entry", ...): the reader answers a readEntry with the next
\* entry and the handler starts mkdir for it.
OnEntry ==
    /\ unzipping
    /\ zipfile.requested > 0 /\ zipfile.next <= Len(archive)
    /\ entryStage' = [entryStage EXCEPT ![zipfile.next] = "mkdir"]
    /\ zipfile' = [next |-> zipfile.next + 1, requested |-> zipfile.requested - 1]
    /\ UNCHANGED <<pc, archive, unzipPromise, handlerState>>

\* zipfile.on("end", () => { resolve(); })
OnEnd ==
    /\ unzipping
    /\ zipfile.requested > 0 /\ zipfile.next > Len(archive)
    /\ zipfile' = [zipfile EXCEPT !.requested = 0]
    /\ unzipPromise' = settle("resolved")
    /\ UNCHANGED <<pc, archive, entryStage, handlerState>>

\* zipfile.on("error", reject): the reader cannot decode the next entry.
OnZipError ==
    /\ unzipping
    /\ zipfile.requested > 0 /\ zipfile.next <= Len(archive)
    /\ zipfile' = [zipfile EXCEPT !.requested = 0]
    /\ unzipPromise' = settle("rejected")
    /\ UNCHANGED <<pc, archive, entryStage, handlerState>>

\* fsPromises.mkdir(...).then(...).catch(reject): for a directory entry the
\* continuation calls readEntry, for a file entry openReadStream.
MkdirSettles(i) ==
    /\ unzipping
    /\ entryStage[i] = "mkdir"
    /\ \E made \in BOOLEAN :
          IF ~made
          THEN /\ entryStage' = [entryStage EXCEPT ![i] = "failed"]
               /\ unzipPromise' = settle("rejected")
               /\ UNCHANGED zipfile
          ELSE IF archive[i] = "dir"
          THEN /\ entryStage' = [entryStage EXCEPT ![i] = "written"]
               /\ zipfile' = [zipfile EXCEPT !.requested = @ + 1]
               /\ UNCHANGED unzipPromise
          ELSE /\ entryStage' = [entryStage EXCEPT ![i] = "open"]
               /\ UNCHANGED <<zipfile, unzipPromise>>
    /\ UNCHANGED <<pc, archive, handlerState>>

\* OpenReadStream with readEntry called right after pipe, not on the write
\* stream's finish.
OpenReadStreamEager(i) ==
    /\ unzipping
    /\ entryStage[i] = "open"
    /\ \E err \in BOOLEAN :
          IF err
          THEN /\ entryStage' = [entryStage EXCEPT ![i] = "failed"]
               /\ unzipPromise' = settle("rejected")
               /\ UNCHANGED zipfile
          ELSE /\ entryStage' = [entryStage EXCEPT ![i] = "piping"]
               /\ zipfile' = [zipfile EXCEPT !.requested = @ + 1]
               /\ UNCHANGED unzipPromise
    /\ UNCHANGED <<pc, archive, handlerState>>

\* zipfile.openReadStream(entry, (err, readStream) => { if (err) return
\* reject(err); ...; readStream.pipe(writeStream); ... })
OpenReadStream(i) ==
    /\ unzipping
    /\ entryStage[i] = "open"
    /\ \E err \in BOOLEAN :
          IF err
          THEN /\ entryStage' = [entryStage EXCEPT ![i] = "failed"]
               /\ unzipPromise' = settle("rejected")
          ELSE /\ entryStage' = [entryStage EXCEPT ![i] = "piping"]
               /\ UNCHANGED unzipPromise
    /\ UNCHANGED <<pc, archive, zipfile, handlerState>>

\* writeStream.on("finish", () => { zipfile.readEntry(); })
WriteFinish(i) ==
    /\ unzipping
    /\ entryStage[i] = "piping"
    /\ entryStage' = [entryStage EXCEPT ![i] = "written"]
    /\ zipfile' = [zipfile EXCEPT !.requested = @ + 1]
    /\ UNCHANGED <<pc, archive, unzipPromise, handlerState>>

\* writeStream.on("error", reject)
WriteError(i) ==
    /\ unzipping
    /\ entryStage[i] = "piping"
    /\ entryStage' = [entryStage EXCEPT ![i] = "failed"]
    /\ unzipPromise' = settle("rejected")
    /\ UNCHANGED <<pc, archive, zipfile, handlerState>>

\* readStream emits "error" while it is piped: unzipFile gave readStream no
\* "error" listener and pipe does not pass the error on to writeStream, so
\* the event is an uncaught exception, which ends the Node process.
ReadStreamError(i) ==
    /\ unzipping
    /\ entryStage[i] = "piping"
    /\ entryStage' = [entryStage EXCEPT ![i] = "failed"]
    /\ pc' = "crashed"
    /\ UNCHANGED <<archive, zipfile, unzipPromise, handlerState>>

\* await unzipFile(imsccFilePath, tempDirPath): the handler goes on when the
\* promise has settled.
AwaitUnzip ==
    /\ pc = "unzip"
    /\ unzipPromise \in {"resolved", "rejected"}
    /\ pc' = IF unzipPromise = "resolved" THEN "readManifest" ELSE "catch"
    /\ UNCHANGED <<unzipVars, handlerState>>

UnzipNext ==
    \/ Accept
    \/ Mkdtemp
    \/ YauzlOpen
    \/ OnEntry
    \/ OnEnd
    \/ OnZipError
    \/ \E i \in 1..Len(archive) : MkdirSettles(i)
    \/ \E i \in 1..Len(archive) : OpenReadStream(i)
    \/ \E i \in 1..Len(archive) : WriteFinish(i)
    \/ \E i \in 1..Len(archive) : WriteError(i)
    \/ \E i \in 1..Len(archive) : ReadStreamError(i)
    \/ AwaitUnzip
    \/ ReadManifest
    \/ ParseManifest
    \/ Resolve
    \/ ProcessResource
    \/ Respond
    \/ Catch
    \/ Unlink
    \/ RmTempDir

SpecUnzip == UnzipInit /\ [][UnzipNext]_vars

\* Every callback and every continuation of an await that is due is run in
\* the end by the event loop.
FairSpecUnzip == SpecUnzip /\ WF_vars(UnzipNext)

(***************************************************************************)
(* Properties.                                                             *)
(***************************************************************************)
Finished == pc = "done"

\* The metadata fields of an item, however the document holds them.
fieldsOf(node) == ListOrSingletonFiltered(node.qtimetadatafield)

hasProfile(node, entry) ==
    \E i \in 1..Len(fieldsOf(node)) : fieldsOf(node)[i] = MetaField("cc_profile", entry)

declaresProfile(node) ==
    \E i \in 1..Len(fieldsOf(node)) :
        fieldsOf(node)[i].fieldlabel = Str(<<"cc_profile">>)

\* The response-conditions of an item as a list, whether the document holds
\* none, one or several.
condsOf(node) ==
    ListOrSingletonFiltered(OptProp(node.resprocessing, "respcondition"))

\* The item declares exactly one cc_profile field.
oneProfile(node) ==
    Cardinality({i \in 1..Len(fieldsOf(node)) :
                    fieldsOf(node)[i].fieldlabel = Str(<<"cc_profile">>)}) = 1

hasRenderChoice(node) == renderChoiceOf(node) /= Undef
hasResponseStr(node) == OptProp(node.presentation, "response_str") /= Undef

Extracted == pc = "extracted"
Emitted == pc = "extracted" /\ question.ok

\* The resources of the request's manifest when it is a list of assessment
\* resources with one file entry each, all of them among hrefs; else <<>>.
listedResources(hrefs) ==
    LET m == OptProp(req.tree, "manifest")
        r == OptProp(OptProp(m, "resources"), "resource")
    IN IF /\ req.manifestFile = "ok"
          /\ isArray(r)
          /\ \A i \in 1..Len(r.l) :
                /\ r.l[i].type = AssessmentType
                /\ \E h \in hrefs : r.l[i].file = File(Str(h))
       THEN r.l ELSE <<>>

UnreadableHrefs == {<<"gone.xml">>, <<"broken.xml">>}
GoodHrefs == {<<"quiz1.xml">>, <<"quiz2.xml">>}

\* C1: in every entry point, when the handler of a request that delivered a
\* file has finished, the staged upload file and the temporary directory
\* are gone.
C1_ScratchReleased ==
    (Finished /\ req.upload = "file") => (~staged /\ ~tempDir)

\* C2: in api/index.js, a manifest that lists several assessment resources, one of them with a
\* missing or unparsable file and the others good, gives a success response
\* holding the quizzes of the others, in order.
C2_BadResourceSkipped ==
    LET listed == listedResources(UnreadableHrefs \cup GoodHrefs)
        good == FilterSeq(listed, {i \in DOMAIN listed :
                                      listed[i].file.href.s \in GoodHrefs})
        expected == [i \in 1..Len(good) |->
                        processXmlFile(variant, pathJoin(TempRoot, good[i].file.href.s))]
    IN (/\ Finished /\ tempDirPath /\ variant = "index"
        /\ Len(listed) >= 2
        /\ Len(good) = Len(listed) - 1)
       => responses = <<[status |-> 200, subject |-> subjectName(req.tree),
                         quizzes |-> expected]>>

\* C3: item extraction returns a question for every item node; it never
\* raises.
C3_ExtractionNeverRaises == Extracted => question.ok

\* C4: when imsmanifest.xml is absent or its parse reports an error, no
\* assessment file is ever read, no success response is ever sent, and the
\* finished request has sent exactly one response, a 500.
manifestUnusable ==
    \/ req.manifestFile = "absent"
    \/ req.manifestFile = "unparsable"
    \/ (req.manifestFile = "malformed" /\ variant \in {"server", "upload"})

C4_ManifestFailureAborts ==
    manifestUnusable =>
        /\ reads = <<>>
        /\ \A i \in 1..Len(responses) : responses[i].status /= 200
        /\ Finished => responses = <<[status |-> 500]>>

C4_Witness ==
    /\ Finished /\ variant = "index" /\ req.manifestFile = "unparsable"
    /\ tempDirPath /\ responses = <<[status |-> 500]>>

\* C5: an item (of server.js or api/index.js) whose metadata holds the field
\* cc_profile = cc.essay.v0p1, and no other cc_profile field, is emitted as an Essay with score
\* "Manual grading" and correctAnswer "Manual scoring required.".
C5_EssayProfileWins ==
    (/\ Emitted /\ variant \in {"server", "index"}
     /\ oneProfile(item) /\ hasProfile(item, "cc.essay.v0p1"))
    => /\ question.q.responseType = "Essay"
       /\ question.q.score = Str(<<"Manual grading">>)
       /\ question.q.correctAnswer = Str(<<"Manual scoring required.">>)

\* C6: for an item (of server.js or api/index.js) that declares one
\* cc_profile field, of a known value, the emitted response type is the same whatever the item's
\* presentation holds.
C6_ProfileAloneDecides ==
    (/\ Emitted /\ variant \in {"server", "index"}
     /\ oneProfile(item)
     /\ \E e \in {"cc.multiple_choice.v0p1", "cc.fib.v0p1", "cc.essay.v0p1"} :
            hasProfile(item, e))
    => \A p \in Presentations :
          LET other == processItem(variant, [item EXCEPT !.presentation = p])
          IN other.ok => other.q.responseType = question.q.responseType

\* C7: for an item (of server.js or api/index.js) without cc_profile field the
\* response type follows the structure: render_choice, else response_str,
\* else Unknown.
C7_StructureDecides ==
    (/\ Emitted /\ variant \in {"server", "index"}
     /\ ~declaresProfile(item))
    => question.q.responseType =
          IF hasRenderChoice(item) THEN "Multiple Choice"
          ELSE IF hasResponseStr(item) THEN "Fill-in-the-Blank"
          ELSE "Unknown"

\* C8: every emitted response type is one of the four values, and an item
\* with no cc_profile, no render_choice and no response_str is emitted as
\* Unknown with no options and the placeholder correctAnswer.
C8_ResponseTypeEnum ==
    Emitted =>
        /\ question.q.responseType \in
               {"Multiple Choice", "Fill-in-the-Blank", "Essay", "Unknown"}
        /\ (~declaresProfile(item) /\ ~hasRenderChoice(item) /\ ~hasResponseStr(item))
           => /\ question.q.responseType = "Unknown"
              /\ question.q.options = <<>>
              /\ question.q.correctAnswer \in
                     {NA, [t |-> "object", id |-> NA, text |-> NA]}

\* An item that api/index.js treats as multiple choice and whose choices are
\* all there.
isMultipleChoice(node) ==
    /\ hasRenderChoice(node)
    /\ renderChoiceOf(node).response_label /= Undef
    /\ oneProfile(node) /\ hasProfile(node, "cc.multiple_choice.v0p1")

\* C9: for a multiple-choice item (of api/index.js), correctAnswer.id is the trimmed equality
\* target of the first response-condition that sets a variable, and
\* correctAnswer.text the text of the first option with that identifier, or
\* "N/A"; without such a response-condition it is {id: "N/A", text: "N/A"}.
C9_CorrectChoice ==
    (/\ Extracted /\ item /= Undef /\ variant = "index"
     /\ isMultipleChoice(item))
    => LET setters == FilterSeq(condsOf(item),
                                {i \in DOMAIN condsOf(item) :
                                    condsOf(item)[i].setvar /= Undef})
           target == Coalesce(setters[1].varequal, EmptyStr)
           id == Str(Trim(target.s))
           opts == question.q.options
           hits == {i \in 1..Len(opts) : opts[i].identifier = id}
           first == CHOOSE i \in hits : \A j \in hits : i <= j
       IN /\ question.ok
          /\ question.q.correctAnswer =
                IF setters = <<>> THEN [t |-> "object", id |-> NA, text |-> NA]
                ELSE [t |-> "object", id |-> id,
                      text |-> IF hits = {} THEN NA ELSE opts[first].text]

\* C10: for a fill-in-the-blank item, correctAnswer is the equality target of
\* the first response-condition, the response-conditions taken as a list;
\* it is "N/A" only without response-condition or target.
C10_FibAnswer ==
    (/\ Emitted /\ variant \in {"server", "index"}
     /\ question.q.responseType = "Fill-in-the-Blank")
    => question.q.correctAnswer =
          IF condsOf(item) = <<>> THEN NA
          ELSE Coalesce(condsOf(item)[1].varequal, NA)

\* C11: for every emitted non-Essay item (of api/index.js or api/upload.js),
\* whatever its response type, score is the entry of the first metadata
\* field labelled cc_weighting when there is one; otherwise the value set by
\* the first response-condition; otherwise "N/A".
C11_ScoreResolution ==
    (/\ Emitted /\ variant \in {"index", "upload"}
     /\ question.q.responseType /= "Essay")
    => LET fields == fieldsOf(item)
           weights == {i \in 1..Len(fields) :
                          fields[i].fieldlabel = Str(<<"cc_weighting">>)}
           first == CHOOSE i \in weights : \A j \in weights : i <= j
           conds == condsOf(item)
       IN question.q.score =
             IF weights /= {} THEN Coalesce(fields[first].fieldentry, NA)
             ELSE IF conds /= <<>> /\ conds[1].setvar /= Undef
                  THEN Coalesce(conds[1].setvar.val, NA)
                  ELSE NA

\* The assessment resources that the request's manifest declares, in
\* manifest order, whether it holds none, one or several resources.
declaredAssessments ==
    assessmentsOf(ListOrSingletonFiltered(
        OptProp(OptProp(OptProp(req.tree, "manifest"), "resources"), "resource")))

\* The href of the first file entry of a resource, the file entries taken as
\* a list; undefined without file entry or href.
firstHref(resource) ==
    LET files == ListOrSingletonFiltered(resource.file)
    IN IF files = <<>> THEN Undef ELSE OptProp(files[1], "href")

\* The paths of the declared assessment resources that have one, in order.
declaredPaths ==
    LET withHref == FilterSeq(declaredAssessments,
                              {i \in DOMAIN declaredAssessments :
                                  firstHref(declaredAssessments[i]) /= Undef})
    IN [i \in 1..Len(withHref) |-> pathJoin(TempRoot, firstHref(withHref[i]).s)]

\* The Quiz results of the first n declared paths, in order.
quizzesOf(n) ==
    LET results == [i \in 1..n |-> processXmlFile(variant, declaredPaths[i])]
    IN FilterSeq(results, {i \in 1..n : results[i].kind = "quiz"})

\* The document at a path has a questestinterop container with an assessment
\* or an item child.
hasQuizContainer(path) ==
    LET tree == FileAt(path).tree
        container == OptProp(tree, "questestinterop")
    IN /\ container /= Undef
       /\ (container.assessment /= Undef \/ container.item /= Undef)

\* C12: the assessment files are read one after the other in manifest order,
\* the quizzes gathered so far are the Quiz results of the files read so
\* far, in that order, and a success response holds the Quiz results of all
\* of them, which are the files whose document has a questestinterop
\* container with an assessment or item child; in api/index.js a file whose document parses to null adds nothing
\* and the request fails in the loop only on a rejected file.
C12_ManifestOrder ==
    /\ Len(reads) <= Len(declaredPaths)
    /\ reads = SubSeq(declaredPaths, 1, Len(reads))
    /\ allQuizData = quizzesOf(Len(reads))
    /\ \A i \in 1..Len(responses) :
          responses[i].status = 200 =>
              /\ responses[i].quizzes = quizzesOf(Len(declaredPaths))
              /\ \A k \in 1..Len(declaredPaths) :
                    hasQuizContainer(declaredPaths[k])
                    <=> processXmlFile(variant, declaredPaths[k]).kind = "quiz"
    /\ (variant = "index" /\ pc = "catch" /\ reads /= <<>>)
       => processXmlFile(variant, reads[Len(reads)]) = Rejected

\* A null document, then a quiz: the response holds the quiz only.
C12_Witness ==
    /\ Finished /\ variant = "index"
    /\ Len(reads) = 2
    /\ processXmlFile(variant, reads[1]) = Null
    /\ processXmlFile(variant, reads[2]).kind = "quiz"
    /\ Len(responses) = 1 /\ responses[1].status = 200
    /\ responses[1].quizzes = <<processXmlFile(variant, reads[2])>>

\* The resource value of the request's manifest, when the manifest parses
\* and has a resources element; else the empty array.
resourceValue ==
    IF manifestUnusable \/ req.upload /= "file" \/ req.zip /= "ok"
       \/ OptProp(OptProp(req.tree, "manifest"), "resources") = Undef
    THEN Arr(<<>>)
    ELSE req.tree.manifest.resources.resource

\* C13: in every entry point, a manifest whose resource value is absent, or
\* a single resource that is not an assessment, gives a success response
\* with the subject and quizzes = []; one whose resource value is a single
\* assessment resource with a good file gives the success response with
\* that quiz.
C13_SingleOrNoResource ==
    (/\ Finished /\ tempDirPath
     /\ ~isArray(resourceValue)
     /\ \/ resourceValue = Undef
        \/ ~isAssessment(resourceValue)
        \/ \E h \in GoodHrefs : resourceValue.file = File(Str(h)))
    => responses = <<[status |-> 200, subject |-> subjectName(req.tree),
                      quizzes |-> quizzesOf(Len(declaredPaths))]>>

\* C14: in server.js and api/index.js, when the manifest lists assessment
\* resources whose files, where they have one, are good, the files read are
\* the hrefs of the first file entries, the file entries taken as a list,
\* and the resources without file entry or href are dropped: the response
\* is the success response with the quizzes of the others.
C14_FirstFileEntry ==
    (/\ Finished /\ tempDirPath /\ variant \in {"server", "index"}
     /\ isArray(resourceValue)
     /\ Len(resourceValue.l) >= 1
     /\ \A i \in 1..Len(declaredPaths) :
           processXmlFile(variant, declaredPaths[i]).kind = "quiz")
    => /\ reads = declaredPaths
       /\ responses = <<[status |-> 200, subject |-> subjectName(req.tree),
                         quizzes |-> quizzesOf(Len(declaredPaths))]>>

\* C15: an item that api/index.js emits without presentation material text has questionText
\* "N/A", and an option made from a choice without material text has text
\* "N/A".
C15_TextDefaults ==
    (Emitted /\ variant = "index") =>
        /\ OptProp(item.presentation, "mattext") = Undef
           => question.q.questionText = NA
        /\ LET choices == ListOrSingleton(OptProp(renderChoiceOf(item),
                                                  "response_label"))
           IN \A i \in 1..Len(question.q.options) :
                 OptProp(choices[i], "mattext") = Undef
                 => question.q.options[i].text = NA

\* The entries that unzipFile is working on: emitted by the reader and
\* neither written nor failed.
inFlight == {i \in 1..Len(archive) : entryStage[i] \in {"mkdir", "open", "piping"}}

allWritten == \A i \in 1..Len(archive) : entryStage[i] = "written"

\* C16: in api/index.js an accepted upload never comes to rest before the
\* end of its handler, whatever errors the I/O of unzipFile reports, and
\* when it has finished it has sent exactly one response and removed its
\* scratch files.  (Under the fairness of FairSpecUnzip this is: it
\* eventually sends its response and reaches its cleanup.)
C16_RunsToCompletion ==
    variant = "index" =>
        /\ Finished => (Len(responses) = 1 /\ ~staged /\ ~tempDir)
        /\ ~Finished => ENABLED UnzipNext

\* C17: unzipFile has at most one entry in hand, takes the entries in
\* archive order, asks the reader for the next one only when all entries
\* emitted so far are written, and its promise is resolved only when every
\* entry is written; the handler reads the manifest only after that.
C17_AllEntriesMaterialized ==
    /\ Cardinality(inFlight) <= 1
    /\ \A i \in 1..Len(archive) :
          entryStage[i] /= "queued" =>
              /\ i < zipfile.next
              /\ \A j \in 1..(i - 1) : entryStage[j] = "written"
    /\ zipfile.requested > 0 =>
          \A i \in 1..(zipfile.next - 1) : entryStage[i] = "written"
    /\ unzipPromise = "resolved" => allWritten
    /\ (pc \in {"readManifest", "parseManifest", "resolve", "loop"} \/ manifest /= Undef)
       => unzipPromise = "resolved" /\ allWritten

\* An archive of a directory and a file, both written, and the manifest
\* parsed after that.
C17_Witness ==
    /\ archive = <<"dir", "file">>
    /\ allWritten
    /\ unzipPromise = "resolved"
    /\ manifest /= Undef
    /\ pc = "loop"

\* C18: every assessment file path that api/index.js reads lies under the
\* directory made for the request, whatever the hrefs of the manifest.
C18_ReadsUnderRoot ==
    variant = "index" => \A i \in 1..Len(reads) : underRoot(reads[i])

====
